---- MODULE Spec2Model ----
(***************************************************************************)
(* Model of the FeatureAnalysis React component                            *)
(* (frontend/src/components/FeatureAnalysis.tsx): its useState cells, its  *)
(* two refs, the HTTP requests it has in flight and the WebSockets it has  *)
(* created.  The backend is the environment: it answers each request and   *)
(* drives each socket nondeterministically.                                *)
(*                                                                         *)
(* A state cell holds the value of the last call of its setter; handlers   *)
(* of requests and sockets that outlive the component keep running after   *)
(* unmount, as the closures in the source do.                              *)
(***************************************************************************)
EXTENDS Integers, Sequences, FiniteSets, TLC

\* ------------------------------------------------------------------ bounds
\* Actions of the user on the page (clicks, selections, leaving the page) in
\* one behaviour of Spec, and in one behaviour of the longer scenarios of
\* LongSpec.
MaxUserActions == 3
MaxLongUserActions == 4
\* Requests of one kind (and one target) in flight at the same time.
MaxInFlight == 1

\* ------------------------------------------------------------- value sets
\* JavaScript null, for the string-valued cells (error, uploadedData).
Null == "<null>"
\* shapResults before any result arrived (useState<ShapResults | null>(null)).
NullResults == [cid |-> 0, model_id |-> ""]

RunIds == {"r1", "r2"}
Files == {"a.csv", "b.csv"}

\* Bodies GET /api/runs can answer with: the documented {runs: [...]} with
\* no, one or two runs, and a JSON body that has no runs field.
RunsBodies ==
  { [hasRuns |-> FALSE, runs |-> <<>>],
    [hasRuns |-> TRUE, runs |-> <<>>],
    [hasRuns |-> TRUE, runs |-> <<"r1", "r2">>] }

\* Text frames the server can send on /ws/shap/{computation_id}.
FrameBad == "progress 70%"
FrameNull == "null"
FrameRunning == "{status:Computing SHAP values...,progress:70,error:null}"
FrameComplete == "{status:Complete,progress:100,error:null}"
FrameFailed == "{status:Failed,progress:70,error:Model not found}"
FrameEmptyError == "{status:Computing SHAP values...,progress:70,error:}"
Frames == {FrameBad, FrameNull, FrameEmptyError, FrameRunning, FrameComplete, FrameFailed}

\* JSON.parse(event.data): ok = FALSE is a SyntaxError; isObject = FALSE is
\* the JSON value null, whose property reads throw a TypeError.
JSONparse(data) ==
  CASE data = FrameRunning ->
         [ok |-> TRUE, isObject |-> TRUE, status |-> "Computing SHAP values...",
          progress |-> 70, error |-> Null]
    [] data = FrameComplete ->
         [ok |-> TRUE, isObject |-> TRUE, status |-> "Complete",
          progress |-> 100, error |-> Null]
    [] data = FrameFailed ->
         [ok |-> TRUE, isObject |-> TRUE, status |-> "Failed",
          progress |-> 70, error |-> "Model not found"]
    [] data = FrameEmptyError ->
         [ok |-> TRUE, isObject |-> TRUE, status |-> "Computing SHAP values...",
          progress |-> 70, error |-> ""]
    [] data = FrameNull ->
         [ok |-> TRUE, isObject |-> FALSE, status |-> "", progress |-> 0, error |-> Null]
    [] OTHER ->
         [ok |-> FALSE, isObject |-> FALSE, status |-> "", progress |-> 0, error |-> Null]

\* JavaScript truthiness of a string-or-null value: `if (message.error)`,
\* `{error && ...}`, `!selectedRun`.
Truthy(v) == v # Null /\ v # ""

\* ------------------------------------------------------------------ state
VARIABLES
  runs,            \* useState<Run[]>([]): the run_ids of the list
  selectedRun,     \* useState<string>('')
  uploadedData,    \* useState<UploadData | null>(null): its filename
  shapResults,     \* useState<ShapResults | null>(null)
  loading,         \* useState(false)
  progress,        \* useState(0)
  progressStatus,  \* useState('')
  error,           \* useState<string | null>(null)
  fileInput,       \* fileInputRef.current.files[0]: a file name, or "" for none
  wsRef,           \* wsRef.current: an index into sockets, 0 for null
  mounted,         \* the component is mounted
  sockets,         \* every WebSocket created, in creation order
  runsReqs,        \* GET /api/runs in flight
  uploadReqs,      \* POST /api/upload in flight, per file
  computeReqs,     \* POST /api/shap/compute in flight
  resultsReqs,     \* GET /api/shap/results/{id} in flight, per id
  downloadReqs,    \* GET /api/shap/download/{id} in flight
  computations,    \* the server's registry: computation_id -> run_id it was started for
  last,            \* history: the handler that ran last, and its input
  budget,          \* scenario: actions the user still takes
  nClicks,         \* history: Compute clicks that passed the guard
  nPosts,          \* history: POST /api/shap/compute requests issued
  completeSeen     \* history: sockets that delivered a 'Complete' message

state == <<runs, selectedRun, uploadedData, shapResults, loading, progress,
           progressStatus, error>>
refs == <<fileInput, wsRef>>
net == <<sockets, runsReqs, uploadReqs, computeReqs, resultsReqs, downloadReqs,
         computations>>
hist == <<nClicks, nPosts>>
seen == <<completeSeen>>
vars == <<state, refs, mounted, net, last, hist, seen, budget>>

CompIds == 1..(MaxUserActions + MaxLongUserActions)

Did(op, sock, data) == [op |-> op, sock |-> sock, data |-> data]

\* The component right after its first render and its mount effects: the
\* useState initial values, and fetchRuns() already called by the effect.
InitWith(userActions) ==
  /\ runs = <<>>
  /\ selectedRun = ""
  /\ uploadedData = Null
  /\ shapResults = NullResults
  /\ loading = FALSE
  /\ progress = 0
  /\ progressStatus = ""
  /\ error = Null
  /\ fileInput = ""
  /\ wsRef = 0
  /\ mounted = TRUE
  /\ sockets = <<>>
  /\ runsReqs = 1
  /\ uploadReqs = [f \in Files |-> 0]
  /\ computeReqs = {}
  /\ resultsReqs = [c \in CompIds |-> 0]
  /\ downloadReqs = 0
  /\ computations = <<>>
  /\ last = Did("mount", 0, "")
  /\ budget = userActions
  /\ nClicks = 0
  /\ nPosts = 0
  /\ completeSeen = {}

Init == InitWith(MaxUserActions)

LongInit == InitWith(MaxLongUserActions)

\* --------------------------------------------------------------- helpers
Range(seq) == {seq[i] : i \in 1..Len(seq)}
OpenSockets == {s \in 1..Len(sockets) : sockets[s].state = "open"}

\* ------------------------------------------------------------- run list
\* fetchRuns up to its first await: the GET /api/runs is issued.
fetchRuns ==
  /\ runsReqs' = runsReqs + 1
  /\ UNCHANGED <<state, refs, mounted, sockets, uploadReqs, computeReqs, resultsReqs,
                 downloadReqs, computations, hist>>

\* fetchRuns after its awaits, the response carrying JSON `body`.
fetchRunsResume(body) ==
  /\ runsReqs' = runsReqs - 1
  /\ runs' = body.runs                              \* setRuns(data.runs || [])
  /\ IF ~body.hasRuns
       THEN \* data.runs.length throws a TypeError, which the catch reports
            /\ error' = "Failed to fetch runs: TypeError"
            /\ UNCHANGED selectedRun
       ELSE IF Len(body.runs) > 0
         THEN selectedRun' = body.runs[1] /\ UNCHANGED error
         ELSE UNCHANGED <<selectedRun, error>>
  /\ UNCHANGED <<uploadedData, shapResults, loading, progress, progressStatus, refs,
                 mounted, sockets, uploadReqs, computeReqs, resultsReqs, downloadReqs,
                 computations, hist>>

\* fetchRuns when fetch() or response.json() rejects.
fetchRunsCatch ==
  /\ runsReqs' = runsReqs - 1
  /\ error' = "Failed to fetch runs: Error"
  /\ UNCHANGED <<runs, selectedRun, uploadedData, shapResults, loading, progress,
                 progressStatus, refs, mounted, sockets, uploadReqs, computeReqs,
                 resultsReqs, downloadReqs, computations, hist>>

\* ------------------------------------------------------------ file upload
\* handleFileUpload up to its first await; `file` is e.target.files?.[0],
\* "" when the change event carries no file.
handleFileUpload(file) ==
  /\ fileInput' = file
  /\ IF file = ""
       THEN UNCHANGED <<error, uploadReqs>>
       ELSE /\ error' = Null
            /\ uploadReqs' = [uploadReqs EXCEPT ![file] = @ + 1]
  /\ UNCHANGED <<runs, selectedRun, uploadedData, shapResults, loading, progress,
                 progressStatus, wsRef, mounted, sockets, runsReqs, computeReqs,
                 resultsReqs, downloadReqs, computations, hist>>

\* handleFileUpload after its awaits; ok is response.ok with a JSON body.
handleFileUploadResume(file, ok) ==
  /\ uploadReqs' = [uploadReqs EXCEPT ![file] = @ - 1]
  /\ IF ok
       THEN uploadedData' = file /\ UNCHANGED error
       ELSE error' = "File upload failed: Error" /\ UNCHANGED uploadedData
  /\ UNCHANGED <<runs, selectedRun, shapResults, loading, progress, progressStatus,
                 refs, mounted, sockets, runsReqs, computeReqs, resultsReqs,
                 downloadReqs, computations, hist>>

\* ------------------------------------------------------------ computation
\* new WebSocket(`${WS_URL}/ws/shap/${computationId}`) stored in wsRef.current;
\* `click` is the Compute click whose handler is running.
connectWebSocket(computationId, click) ==
  /\ sockets' = Append(sockets, [cid |-> computationId, click |-> click, state |-> "open"])
  /\ wsRef' = Len(sockets) + 1

\* Mutant of handleComputeShap: the guard does not look at the file input.
handleComputeShap_noFileCheck ==
  IF ~Truthy(selectedRun) \/ uploadedData = Null
    THEN /\ error' = "Please select a run and upload data"
         /\ UNCHANGED <<runs, selectedRun, uploadedData, shapResults, loading, progress,
                        progressStatus, refs, mounted, net, hist>>
    ELSE /\ error' = Null
         /\ loading' = TRUE
         /\ progress' = 0
         /\ computeReqs' = computeReqs \cup
              {[click |-> nClicks + 1, run_id |-> selectedRun, file |-> fileInput]}
         /\ nClicks' = nClicks + 1
         /\ nPosts' = nPosts + 1
         /\ UNCHANGED <<runs, selectedRun, uploadedData, shapResults, progressStatus,
                        refs, mounted, sockets, runsReqs, uploadReqs, resultsReqs,
                        downloadReqs, computations>>

\* handleComputeShap up to its first await.
handleComputeShap ==
  IF ~Truthy(selectedRun) \/ uploadedData = Null \/ fileInput = ""
    THEN /\ error' = "Please select a run and upload data"
         /\ UNCHANGED <<runs, selectedRun, uploadedData, shapResults, loading, progress,
                        progressStatus, refs, mounted, net, hist>>
    ELSE /\ error' = Null
         /\ loading' = TRUE
         /\ progress' = 0
         /\ computeReqs' = computeReqs \cup
              {[click |-> nClicks + 1, run_id |-> selectedRun, file |-> fileInput]}
         /\ nClicks' = nClicks + 1
         /\ nPosts' = nPosts + 1
         /\ UNCHANGED <<runs, selectedRun, uploadedData, shapResults, progressStatus,
                        refs, mounted, sockets, runsReqs, uploadReqs, resultsReqs,
                        downloadReqs, computations>>

\* Mutant of handleComputeShapResume: a failed POST is sent again.
handleComputeShapResume_retries(req, ok, computationId) ==
  /\ IF ok
       THEN /\ computeReqs' = computeReqs \ {req}
            /\ connectWebSocket(computationId, req.click)
            /\ UNCHANGED <<nClicks, nPosts>>
       ELSE /\ computeReqs' = computeReqs
            /\ nPosts' = nPosts + 1
            /\ UNCHANGED <<sockets, wsRef, nClicks>>
  /\ UNCHANGED <<runs, selectedRun, uploadedData, shapResults, loading, progress,
                 progressStatus, error, fileInput, mounted, runsReqs, uploadReqs,
                 resultsReqs, downloadReqs>>

\* handleComputeShap after its awaits, for the POST `req`: ok is response.ok
\* with a JSON body, whose computation_id is `computationId`.
handleComputeShapResume(req, ok, computationId) ==
  /\ computeReqs' = computeReqs \ {req}
  /\ IF ok
       THEN /\ connectWebSocket(computationId, req.click)
            /\ UNCHANGED <<error, loading>>
       ELSE /\ error' = "SHAP computation failed: Error"
            /\ loading' = FALSE
            /\ UNCHANGED <<sockets, wsRef>>
  /\ UNCHANGED <<runs, selectedRun, uploadedData, shapResults, progress, progressStatus,
                 fileInput, mounted, runsReqs, uploadReqs, resultsReqs, downloadReqs,
                 hist>>

\* fetchShapResults up to its first await: the GET is issued.
fetchShapResults(computationId) ==
  resultsReqs' = [resultsReqs EXCEPT ![computationId] = @ + 1]

\* Mutant of onmessage: setError(message.error) without the `if`.
onmessage_alwaysSetsError(s, data) ==
  LET message == JSONparse(data) IN
  /\ IF ~message.ok \/ ~message.isObject
       THEN UNCHANGED <<progress, progressStatus, error, loading, resultsReqs>>
       ELSE /\ progress' = message.progress
            /\ progressStatus' = message.status
            /\ error' = message.error
            /\ loading' = IF Truthy(message.error) THEN FALSE ELSE loading
            /\ IF message.status = "Complete"
                 THEN fetchShapResults(sockets[s].cid)
                 ELSE UNCHANGED resultsReqs
  /\ UNCHANGED <<runs, selectedRun, uploadedData, shapResults, refs, mounted, sockets,
                 runsReqs, uploadReqs, computeReqs, downloadReqs, computations, hist>>

\* Mutant of onmessage: the results are fetched on every message.
onmessage_fetchesOnAnyStatus(s, data) ==
  LET message == JSONparse(data) IN
  /\ IF ~message.ok \/ ~message.isObject
       THEN UNCHANGED <<progress, progressStatus, error, loading, resultsReqs>>
       ELSE /\ progress' = message.progress
            /\ progressStatus' = message.status
            /\ IF Truthy(message.error)
                 THEN error' = message.error /\ loading' = FALSE
                 ELSE UNCHANGED <<error, loading>>
            /\ fetchShapResults(sockets[s].cid)
  /\ UNCHANGED <<runs, selectedRun, uploadedData, shapResults, refs, mounted, sockets,
                 runsReqs, uploadReqs, computeReqs, downloadReqs, computations, hist>>

\* Mutant of onmessage: the catch reports the frame it could not parse.
onmessage_reportsBadFrame(s, data) ==
  LET message == JSONparse(data) IN
  /\ IF ~message.ok \/ ~message.isObject
       THEN /\ error' = "WebSocket message error"
            /\ loading' = FALSE
            /\ UNCHANGED <<progress, progressStatus, resultsReqs>>
       ELSE /\ progress' = message.progress
            /\ progressStatus' = message.status
            /\ IF Truthy(message.error)
                 THEN error' = message.error /\ loading' = FALSE
                 ELSE UNCHANGED <<error, loading>>
            /\ IF message.status = "Complete"
                 THEN fetchShapResults(sockets[s].cid)
                 ELSE UNCHANGED resultsReqs
  /\ UNCHANGED <<runs, selectedRun, uploadedData, shapResults, refs, mounted, sockets,
                 runsReqs, uploadReqs, computeReqs, downloadReqs, computations, hist>>

\* wsRef.current.onmessage of socket s, for a frame with text `data`.
onmessage(s, data) ==
  LET message == JSONparse(data) IN
  /\ IF ~message.ok \/ ~message.isObject
       THEN \* JSON.parse or message.progress throws; the catch only logs
            UNCHANGED <<progress, progressStatus, error, loading, resultsReqs>>
       ELSE /\ progress' = message.progress
            /\ progressStatus' = message.status
            /\ IF Truthy(message.error)
                 THEN error' = message.error /\ loading' = FALSE
                 ELSE UNCHANGED <<error, loading>>
            /\ IF message.status = "Complete"
                 THEN fetchShapResults(sockets[s].cid)
                 ELSE UNCHANGED resultsReqs
  /\ UNCHANGED <<runs, selectedRun, uploadedData, shapResults, refs, mounted, sockets,
                 runsReqs, uploadReqs, computeReqs, downloadReqs, computations, hist>>

\* Mutant of onerror: setLoading(false) is missing.
onerror_keepsLoading(s) ==
  /\ error' = "WebSocket connection error"
  /\ UNCHANGED <<runs, selectedRun, uploadedData, shapResults, loading, progress,
                 progressStatus, refs, mounted, runsReqs, uploadReqs, computeReqs,
                 resultsReqs, downloadReqs, computations, hist>>

\* wsRef.current.onerror of socket s.
onerror(s) ==
  /\ error' = "WebSocket connection error"
  /\ loading' = FALSE
  /\ UNCHANGED <<runs, selectedRun, uploadedData, shapResults, progress, progressStatus,
                 refs, mounted, runsReqs, uploadReqs, computeReqs, resultsReqs,
                 downloadReqs, computations, hist>>

\* wsRef.current.onclose of socket s: it only logs.
onclose(s) ==
  UNCHANGED <<state, refs, mounted, runsReqs, uploadReqs, computeReqs, resultsReqs,
              downloadReqs, computations, hist>>

\* fetchShapResults after its awaits; ok is a response with a JSON body.
fetchShapResultsResume(computationId, ok) ==
  /\ resultsReqs' = [resultsReqs EXCEPT ![computationId] = @ - 1]
  /\ IF ok
       THEN /\ shapResults' = [cid |-> computationId, model_id |-> computations[computationId]]
            /\ UNCHANGED error
       ELSE /\ error' = "Failed to fetch results: Error"
            /\ UNCHANGED shapResults
  /\ loading' = FALSE
  /\ UNCHANGED <<runs, selectedRun, uploadedData, progress, progressStatus, refs,
                 mounted, sockets, runsReqs, uploadReqs, computeReqs, downloadReqs,
                 computations, hist>>

\* --------------------------------------------------------------- download
\* downloadResults up to its first await.
downloadResults ==
  /\ IF shapResults = NullResults
       THEN UNCHANGED downloadReqs
       ELSE downloadReqs' = downloadReqs + 1    \* GET .../download/${selectedRun}
  /\ UNCHANGED <<state, refs, mounted, sockets, runsReqs, uploadReqs, computeReqs,
                 resultsReqs, computations, hist>>

\* downloadResults after its awaits.
downloadResultsResume(ok) ==
  /\ downloadReqs' = downloadReqs - 1
  /\ IF ok
       THEN UNCHANGED error      \* the blob is saved through a temporary link
       ELSE error' = "Download failed: Error"
  /\ UNCHANGED <<runs, selectedRun, uploadedData, shapResults, loading, progress,
                 progressStatus, refs, mounted, sockets, runsReqs, uploadReqs,
                 computeReqs, resultsReqs, computations, hist>>

\* ----------------------------------------------------------------- unmount
\* The cleanup of the second effect: wsRef.current.close() when it is set.
cleanup ==
  /\ sockets' = IF wsRef # 0
                  THEN [sockets EXCEPT ![wsRef].state = "closed"]
                  ELSE sockets
  /\ UNCHANGED <<state, refs, runsReqs, uploadReqs, computeReqs, resultsReqs,
                 downloadReqs, computations, hist>>

\* ---------------------------------------------------------------- actions
\* One more action of the user.
UserAction == budget > 0 /\ budget' = budget - 1

\* The user clicks Refresh (disabled={loading}).
Refresh ==
  /\ mounted /\ ~loading
  /\ runsReqs < MaxInFlight
  /\ fetchRuns
  /\ last' = Did("fetchRuns", 0, "")
  /\ UNCHANGED seen /\ UserAction

\* A GET /api/runs resolves with a JSON body.
RunsResponse ==
  \E body \in RunsBodies :
    /\ runsReqs > 0
    /\ fetchRunsResume(body)
    /\ last' = Did("fetchRunsResume", 0, IF body.hasRuns THEN "runs" ELSE "no runs field")
    /\ UNCHANGED <<seen, budget>>

\* A GET /api/runs fails.
RunsFailure ==
  /\ runsReqs > 0
  /\ fetchRunsCatch
  /\ last' = Did("fetchRunsCatch", 0, "")
  /\ UNCHANGED <<seen, budget>>

\* The user picks an option of the run <select> (disabled={loading}):
\* onChange is setSelectedRun(e.target.value).
SelectRun ==
  \E v \in Range(runs) \cup {""} :
    /\ mounted /\ ~loading
    /\ v # selectedRun
    /\ selectedRun' = v
    /\ last' = Did("setSelectedRun", 0, v)
    /\ UNCHANGED <<runs, uploadedData, shapResults, loading, progress, progressStatus,
                   error, refs, mounted, net, hist, seen>>
    /\ UserAction

\* The file input (disabled={loading}) fires a change event: the user chose
\* another file, or dismissed the dialog, which empties the selection.
ChooseFile ==
  \E file \in Files \cup {""} :
    /\ mounted /\ ~loading
    /\ file # fileInput
    /\ file # "" => uploadReqs[file] < MaxInFlight
    /\ handleFileUpload(file)
    /\ last' = Did("handleFileUpload", 0, file)
    /\ UNCHANGED seen /\ UserAction

\* A POST /api/upload resolves (ok) or fails / answers non-OK.
UploadResponse ==
  \E file \in Files, ok \in BOOLEAN :
    /\ uploadReqs[file] > 0
    /\ handleFileUploadResume(file, ok)
    /\ last' = Did("handleFileUploadResume", 0, IF ok THEN "ok" ELSE "failed")
    /\ UNCHANGED <<seen, budget>>

\* The user clicks Compute (disabled={!selectedRun || !uploadedData || loading}).
ClickCompute ==
  /\ mounted
  /\ Truthy(selectedRun) /\ uploadedData # Null /\ ~loading
  /\ handleComputeShap
  /\ last' = Did("handleComputeShap", 0, IF fileInput = "" THEN "rejected" ELSE "posted")
  /\ UNCHANGED seen /\ UserAction

\* A POST /api/shap/compute resolves: the server registered the computation
\* and answers its fresh computation_id.
ComputeResponse ==
  \E req \in computeReqs :
    /\ computations' = Append(computations, req.run_id)
    /\ handleComputeShapResume(req, TRUE, Len(computations) + 1)
    /\ last' = Did("handleComputeShapResume", 0, "ok")
    /\ UNCHANGED <<seen, budget>>

\* A POST /api/shap/compute fails or answers non-OK.
ComputeFailure ==
  \E req \in computeReqs :
    /\ handleComputeShapResume(req, FALSE, 0)
    /\ last' = Did("handleComputeShapResume", 0, "failed")
    /\ UNCHANGED <<computations, seen, budget>>

\* The server sends the text frame `data` on socket s, which is open.
WsMessageOn(s, data) ==
  /\ s \in OpenSockets
  /\ data = FrameComplete => resultsReqs[sockets[s].cid] < MaxInFlight
  /\ onmessage(s, data)
  /\ last' = Did("onmessage", s, data)
  /\ completeSeen' = IF data = FrameComplete THEN completeSeen \cup {s} ELSE completeSeen
  /\ UNCHANGED budget

WsMessage == \E s \in OpenSockets, data \in Frames : WsMessageOn(s, data)

\* The connection of socket s, which is open, fails: the browser fires error,
\* then close.
WsErrorOn(s) ==
  /\ s \in OpenSockets
  /\ onerror(s)
  /\ sockets' = [sockets EXCEPT ![s].state = "closed"]
  /\ last' = Did("onerror", s, "")
  /\ UNCHANGED <<seen, budget>>

WsError == \E s \in OpenSockets : WsErrorOn(s)

\* The server closes socket s, which is open: the browser fires close.
WsCloseOn(s) ==
  /\ s \in OpenSockets
  /\ onclose(s)
  /\ sockets' = [sockets EXCEPT ![s].state = "closed"]
  /\ last' = Did("onclose", s, "")
  /\ UNCHANGED <<seen, budget>>

WsClose == \E s \in OpenSockets : WsCloseOn(s)

\* A GET /api/shap/results/{c} resolves (ok) or fails.
ResultsResponseFor(c) ==
  \E ok \in BOOLEAN :
    /\ resultsReqs[c] > 0
    /\ fetchShapResultsResume(c, ok)
    /\ last' = Did("fetchShapResultsResume", c, IF ok THEN "ok" ELSE "failed")
    /\ UNCHANGED <<seen, budget>>

ResultsResponse == \E c \in CompIds : ResultsResponseFor(c)

\* The user clicks Download Results (rendered when shapResults is set).
ClickDownload ==
  /\ mounted
  /\ shapResults # NullResults
  /\ downloadReqs < MaxInFlight
  /\ downloadResults
  /\ last' = Did("downloadResults", 0, selectedRun)
  /\ UNCHANGED seen /\ UserAction

\* A GET /api/shap/download/{id} resolves (ok) or fails.
DownloadResponse ==
  \E ok \in BOOLEAN :
    /\ downloadReqs > 0
    /\ downloadResultsResume(ok)
    /\ last' = Did("downloadResultsResume", 0, IF ok THEN "ok" ELSE "failed")
    /\ UNCHANGED <<seen, budget>>

\* The user clicks the error banner's close button (rendered when error is set).
DismissError ==
  /\ mounted
  /\ Truthy(error)
  /\ error' = Null
  /\ last' = Did("setError", 0, "")
  /\ UNCHANGED <<runs, selectedRun, uploadedData, shapResults, loading, progress,
                 progressStatus, refs, mounted, net, hist, seen>>
    /\ UserAction

\* The component unmounts: React runs the effect cleanups.
Unmount ==
  /\ mounted
  /\ mounted' = FALSE
  /\ cleanup
  /\ last' = Did("cleanup", wsRef, "")
  /\ UNCHANGED seen /\ UserAction

Next ==
  \/ Refresh
  \/ RunsResponse
  \/ RunsFailure
  \/ SelectRun
  \/ ChooseFile
  \/ UploadResponse
  \/ ClickCompute
  \/ ComputeResponse
  \/ ComputeFailure
  \/ WsMessage
  \/ WsError
  \/ WsClose
  \/ ResultsResponse
  \/ ClickDownload
  \/ DownloadResponse
  \/ DismissError
  \/ Unmount

\* The component with a user who takes at most MaxUserActions actions.
Spec == Init /\ [][Next]_vars

\* The same component with a user who takes at most MaxLongUserActions.
LongSpec == LongInit /\ [][Next]_vars

\* Every HTTP request in flight eventually resolves or rejects.
HttpFairness ==
  /\ WF_vars(RunsResponse \/ RunsFailure)
  /\ WF_vars(UploadResponse)
  /\ WF_vars(ComputeResponse \/ ComputeFailure)
  /\ \A c \in CompIds : WF_vars(ResultsResponseFor(c))
  /\ WF_vars(DownloadResponse)

\* On socket s: a 'Complete' message, a message carrying an error, an error
\* event, or the close by the server.
WsTerminal(s) ==
  \/ WsMessageOn(s, FrameComplete)
  \/ WsMessageOn(s, FrameFailed)
  \/ WsErrorOn(s)
  \/ WsCloseOn(s)

\* Every open socket eventually sees one of them.
WsFairness == \A s \in CompIds : WF_vars(WsTerminal(s))

\* Spec with a backend and a network that eventually answer.
LiveSpec == Init /\ [][Next]_vars /\ HttpFairness /\ WsFairness

\* ----------------------------------------------------------------- claims
\* The message of the frame the last onmessage handled.
lastMessage == JSONparse(last.data)

\* C1, as stated: right after onmessage handled a frame that parses as JSON (to
\* a message object), progressStatus, progress and error equal the message's
\* status, progress and error, also when the message's error is null.
C1_ForwardsAllThreeFields ==
  (last.op = "onmessage" /\ lastMessage.ok /\ lastMessage.isObject) =>
    /\ progressStatus = lastMessage.status
    /\ progress = lastMessage.progress
    /\ error = lastMessage.error

\* C1, amended: onmessage forwards status and progress of every message object;
\* it forwards the message's error only when that error is non-empty (and then
\* ends loading), and leaves error as it was otherwise. A JSON frame that is no
\* object leaves all five cells as they were.
C1_ForwardsStatusProgressAndNonEmptyError ==
  [][ (last'.op = "onmessage" /\ lastMessage'.ok) =>
        IF lastMessage'.isObject
          THEN /\ progressStatus' = lastMessage'.status
               /\ progress' = lastMessage'.progress
               /\ IF Truthy(lastMessage'.error)
                    THEN error' = lastMessage'.error /\ ~loading'
                    ELSE UNCHANGED <<error, loading>>
          ELSE UNCHANGED <<progressStatus, progress, error, loading>> ]_vars

\* C1 witness: a message with a null error was handled while an earlier error
\* was on display, and the error is still there.
C1_Witness ==
  /\ last.op = "onmessage"
  /\ last.data = FrameRunning
  /\ progressStatus = "Computing SHAP values..."
  /\ progress = 70
  /\ Truthy(error)

\* C2: a GET /api/shap/results/{id} is in flight only for an id the POST
\* /api/shap/compute returned and whose socket delivered 'Complete'; and
\* shapResults is set only to the results of such an id.
C2_OnlyCompletedResultsFetched ==
  /\ \A c \in CompIds :
       resultsReqs[c] > 0 =>
         /\ c \in 1..Len(computations)
         /\ \E s \in completeSeen : sockets[s].cid = c
  /\ shapResults # NullResults =>
       /\ shapResults.cid \in 1..Len(computations)
       /\ \E s \in completeSeen : sockets[s].cid = shapResults.cid

\* C2 witness: results are on display.
C2_Witness ==
  /\ shapResults # NullResults
  /\ last.op = "fetchShapResultsResume"

\* C3: whenever loading is true, it is eventually false again with results or
\* an error set (or the user has left the page).
C3_ComputationReachesEndState ==
  loading ~> (~mounted \/ (~loading /\ (shapResults # NullResults \/ error # Null)))

\* C3 is refuted by a socket the server closes before a terminal message:
\* onclose only logs, and loading stays true.

\* The handler that ran last ended in a failed HTTP request.
lastHttpFailed ==
  \/ last.op = "fetchRunsCatch"
  \/ last.op = "fetchRunsResume" /\ last.data = "no runs field"
  \/ last.op \in {"handleFileUploadResume", "handleComputeShapResume",
                  "fetchShapResultsResume", "downloadResultsResume"}
       /\ last.data = "failed"

\* The handler that ran last was a socket's onerror or onclose.
lastSocketEnded == last.op \in {"onerror", "onclose"}

\* The step issues no HTTP request and creates no socket.
NothingIssued ==
  /\ runsReqs' <= runsReqs
  /\ \A f \in Files : uploadReqs'[f] <= uploadReqs[f]
  /\ computeReqs' \subseteq computeReqs
  /\ nPosts' = nPosts
  /\ \A c \in CompIds : resultsReqs'[c] <= resultsReqs[c]
  /\ downloadReqs' <= downloadReqs
  /\ Len(sockets') = Len(sockets)

\* C4: every Compute click that passes the guard issues exactly one POST
\* /api/shap/compute and gets at most one socket; a socket is created only when
\* that POST resolves; and the handlers of a socket error, a socket close and a
\* failed HTTP request issue no request and create no socket.
C4_NoRetryNoReconnect ==
  /\ [](/\ nPosts = nClicks
        /\ \A k \in 1..nClicks :
             Cardinality({s \in 1..Len(sockets) : sockets[s].click = k}) <= 1)
  /\ [][ /\ nPosts' # nPosts =>
              /\ last'.op = "handleComputeShap"
              /\ nPosts' = nPosts + 1
         /\ Len(sockets') # Len(sockets) =>
              /\ last'.op = "handleComputeShapResume" /\ last'.data = "ok"
              /\ Len(sockets') = Len(sockets) + 1
         /\ (lastHttpFailed' \/ lastSocketEnded') => NothingIssued ]_vars

\* C4 witness: a socket failed after its POST had been answered, and nothing is
\* in flight for the computation.
C4_Witness ==
  /\ last.op = "onerror"
  /\ nPosts = 1
  /\ Len(sockets) = 1
  /\ computeReqs = {}

\* C5: the id a download requests is the run of the results on display.
C5_DownloadsDisplayedAnalysis ==
  last.op = "downloadResults" => last.data = shapResults.model_id

\* C6: once the component has unmounted, none of its sockets is open.
C6_NoOpenSocketAfterUnmount ==
  ~mounted => OpenSockets = {}

\* C7: a frame that is not JSON changes no state cell, triggers no results
\* fetch and leaves every socket, its own included, as it was: open.
C7_BadFrameChangesNothing ==
  [][ (last'.op = "onmessage" /\ ~lastMessage'.ok) =>
        /\ UNCHANGED <<state, refs, sockets>>
        /\ NothingIssued
        /\ last'.sock \in OpenSockets' ]_vars

\* C7 witness: a frame that is not JSON was handled during a computation, and
\* its socket is still open.
C7_Witness ==
  /\ last.op = "onmessage"
  /\ last.data = FrameBad
  /\ loading
  /\ last.sock \in OpenSockets

\* C8: when handleComputeShap runs with no selected run, no uploaded dataset or
\* no file in the input, it sets the error message and does nothing else.
C8_GuardRejectsIncompleteInput ==
  [][ (last'.op = "handleComputeShap"
         /\ (~Truthy(selectedRun) \/ uploadedData = Null \/ fileInput = "")) =>
        /\ error' = "Please select a run and upload data"
        /\ UNCHANGED <<loading, progress, shapResults>>
        /\ NothingIssued ]_vars

\* C8 witness: Compute was clicked with an uploaded dataset but an emptied file
\* input, and was rejected.
C8_Witness ==
  /\ last.op = "handleComputeShap"
  /\ uploadedData # Null
  /\ fileInput = ""
  /\ error = "Please select a run and upload data"

\* The handler that ran last met a failure of the computation pipeline.
lastPipelineFailed ==
  \/ last.op = "handleComputeShapResume" /\ last.data = "failed"
  \/ last.op = "onerror"
  \/ last.op = "onmessage" /\ lastMessage.ok /\ lastMessage.isObject
       /\ Truthy(lastMessage.error)
  \/ last.op = "fetchShapResultsResume" /\ last.data = "failed"

\* C9: right after a failure of the pipeline error is set and loading is false,
\* and a failed POST /api/shap/compute creates no socket.
C9_FailureEndsLoading ==
  [][ /\ lastPipelineFailed' => (Truthy(error') /\ ~loading')
      /\ (last'.op = "handleComputeShapResume" /\ last'.data = "failed") =>
           sockets' = sockets ]_vars

\* C9 witness: the results fetch of a completed computation failed.
C9_Witness ==
  /\ last.op = "fetchShapResultsResume"
  /\ last.data = "failed"
  /\ error = "Failed to fetch results: Error"
  /\ ~loading

\* C10: at most one POST /api/shap/compute is in flight at any time.
C10_OneComputeInFlight ==
  Cardinality(computeReqs) <= 1

\* The part of C10 that does hold: Compute is never clicked, and so no POST is
\* issued, in a state where loading is true.
C10_NoPostWhileLoading ==
  [][ nPosts' # nPosts => ~loading ]_vars

\* C11: at most one socket of the component is open at any time: when
\* connectWebSocket creates a socket, every earlier one has been closed.
C11_AtMostOneOpenSocket ==
  Cardinality(OpenSockets) <= 1

\* The Compute click whose POST returned computation_id c (0 when none did).
ClickOf(c) ==
  IF \E s \in 1..Len(sockets) : sockets[s].cid = c
    THEN sockets[CHOOSE s \in 1..Len(sockets) : sockets[s].cid = c].click
    ELSE 0

\* C12: a results response that ends loading belongs to the computation of the
\* most recent Compute click, and the results it puts on display are those of
\* that computation.
C12_ResultsOfLatestComputation ==
  last.op = "fetchShapResultsResume" =>
    /\ ClickOf(last.sock) = nClicks
    /\ (last.data = "ok" /\ ~loading) => ClickOf(shapResults.cid) = nClicks

\* C13: no step taken while loading is true changes selectedRun, runs or
\* uploadedData.
C13_InputsFrozenWhileLoading ==
  [][ loading => UNCHANGED <<selectedRun, runs, uploadedData>> ]_vars

\* The part of C13 that does hold: while loading is true the user changes none
\* of them through the run selector, the Refresh button or the file input.
C13_ControlsDisabledWhileLoading ==
  [][ (loading /\ budget' # budget) =>
        UNCHANGED <<selectedRun, runs, uploadedData, fileInput, runsReqs, uploadReqs>> ]_vars

\* C14: a GET /api/runs body without a runs field empties runs and leaves
\* selectedRun and error as they were; a body with a non-empty runs list makes
\* runs that list and selects its first run.
C14_FetchRunsToleratesMissingRuns ==
  [][ last'.op = "fetchRunsResume" =>
        /\ last'.data = "no runs field" =>
             (runs' = <<>> /\ UNCHANGED <<selectedRun, error>>)
        /\ (last'.data = "runs" /\ Len(runs') > 0) =>
             (runs' \in {b.runs : b \in RunsBodies} /\ selectedRun' = runs'[1]) ]_vars

\* The part of C14 that does hold: what fetchRuns does to runs and selectedRun.
C14_FetchRunsSetsRunsAndSelection ==
  [][ last'.op = "fetchRunsResume" =>
        /\ last'.data = "no runs field" => (runs' = <<>> /\ UNCHANGED selectedRun)
        /\ (last'.data = "runs" /\ Len(runs') > 0) => selectedRun' = runs'[1] ]_vars

====
